---- MODULE Spec2Model ----
(***************************************************************************)
(* Model of solcast_daily.py: the cache manager (LoadOrRefreshCache), the  *)
(* remote fetch with its DNS retry loop (FetchForecast) and the top level  *)
(* (main).                                                                 *)
(*                                                                         *)
(* Time is local wall-clock time in units of 1/DayLen of a calendar day.   *)
(* Both operands of "now_local - mtime_local" carry the same tzinfo, so    *)
(* Python subtracts wall-clock values; age and calendar date are therefore *)
(* both functions of the wall clock.                                       *)
(*                                                                         *)
(* The file system, the process environment and the network are the        *)
(* environment: the outcome of mkdir, unlink, write_text and urlopen is    *)
(* chosen nondeterministically among the outcomes the call can have.       *)
(***************************************************************************)
EXTENDS Integers, Sequences, FiniteSets, TLC

\* ---- bounds of the model ----
MaxDay == 4           \* the wall clock runs over the local days 0..MaxDay
DayLen == 2           \* clock units per local calendar day
NumDocs == 2          \* distinct forecast documents the API can serve

\* ---- program constants ----
StaleDays == 3        \* timedelta(days=3)
max_retries == 3
InitialDelay == 1     \* retry_delay = 1

max_age == StaleDays * DayLen
MaxTime == (MaxDay + 1) * DayLen - 1

\* ---- values ----
Docs == 1..NumDocs    \* well-formed forecast documents, by identity
NoDoc == 0 - 1        \* no document (unset local / absent file)
Corrupt == NoDoc - 1  \* file content that cannot be read or parsed as JSON
NoExit == 0 - 1       \* the process has not exited
Creds == {"", "set"}  \* stripped value of an environment credential

\* A time stamp before datetime.min: a file can carry it, fromtimestamp
\* raises ValueError on it.  It lies more than max_age before any clock value.
AncientMtime == 0 - (max_age + 1)
Mtimes == {AncientMtime} \cup (0..MaxTime)

NoFile == [exists |-> FALSE, mtime |-> 0, content |-> NoDoc]
File(m, c) == [exists |-> TRUE, mtime |-> m, content |-> c]

\* Outcomes of one urlopen + read + json.loads (lines 113-114)
Outcomes == {"ok", "dns", "urlerror", "http", "other"}
\* URLError and its subclass HTTPError are caught at line 119
URLErrors == {"dns", "urlerror", "http"}
\* the exceptions FetchForecast can raise (lines 97, 135, 139)
FetchErrs == {"config", "dns", "urlerror", "http", "other"}
\* Outcomes of CACHE_FILE.write_text (line 175): written, open() failed and
\* left the file alone, or the write failed after open() truncated the file
WriteOutcomes == {"ok", "open_failed", "partial"}

VARIABLES
  clock,           \* wall clock (datetime.now(LOCAL_TZ))
  CACHE_DIR,       \* TRUE iff the cache directory exists
  CACHE_FILE,      \* the cache record: [exists, mtime, content]
  SITE_ID, API_KEY,
  pc,              \* position of the running invocation
  now_local,
  need_fetch, cache_is_stale,
  retries_done, retry_delay,
  data,            \* LoadOrRefreshCache's local `data`
  err,             \* exception caught at line 176/194 ("none" if none)
  raised,          \* exception leaving LoadOrRefreshCache ("none" if none)
  exitCode, stdout,
  \* history variables
  cache0,          \* the cache record when the invocation started
  fetch_called,    \* FetchForecast was called in this invocation
  attempts,        \* urlopen calls made in this invocation
  sleeps,          \* arguments of time.sleep, in order
  lastOutcome,     \* outcome of the latest urlopen
  fetched,         \* document returned by FetchForecast, or NoDoc
  source,          \* where the returned data came from: "fetch" / "cache"
  fetched_today,   \* an invocation whose now_local lies on the clock's
                   \* local day has fetched and written the record
  refetch_due,     \* the previous invocation fell back to the record, and
                   \* this one runs on a later local day, or on the same
                   \* day with the record stamped on an earlier day
  \* DurationHours(iso)
  iso,             \* the argument: a sequence of characters
  dur,             \* the value returned, or NoDur before the call
  \* KwhByDay(data, now_local); now_local is the variable above
  forecasts,       \* data["forecasts"]: a sequence of interval records
  kpc,             \* position in KwhByDay
  row_i,           \* index of the row the for loop handles next
  last_period,
  sums,            \* day key -> [mean, opt]
  rows,            \* the list returned
  hours,           \* history: the duration resolved for each row handled
  counted          \* history: indices of the rows added to the sums

cacheVars == <<clock, CACHE_DIR, CACHE_FILE, SITE_ID, API_KEY, pc, now_local,
          need_fetch, cache_is_stale, retries_done, retry_delay, data, err,
          raised, exitCode, stdout, cache0, fetch_called, attempts, sleeps,
          lastOutcome, fetched, source, fetched_today, refetch_due>>

fsVars == <<CACHE_DIR, CACHE_FILE>>
envVars == <<SITE_ID, API_KEY>>
fetchVars == <<retries_done, retry_delay, attempts, sleeps, lastOutcome,
               fetched, fetch_called>>
mainVars == <<exitCode, stdout>>
histVars == <<fetched_today, refetch_due>>
durVars == <<iso, dur>>
kwhVars == <<forecasts, kpc, row_i, last_period, sums, rows, hours, counted>>
vars == <<cacheVars, durVars, kwhVars>>

\* ---- pure helpers ----

\* datetime.fromtimestamp(st_mtime, LOCAL_TZ) succeeds (line 150)
FromTimestampOk(m) == m >= 0

\* (now_local - mtime_local) > timedelta(days=3) (line 154)
IsStale_ge(now, m) == (now - m) >= max_age
IsStale(now, m) == (now - m) > max_age

\* .date() of a local time
LocalDate(t) == t \div DayLen

\* mtime_local.date() == now_local.date() (line 167)
SameDay_exact(m, now) == m = now
SameDay_prev(m, now) == LocalDate(m) + 1 = LocalDate(now)
SameDay(m, now) == LocalDate(m) = LocalDate(now)

\* not SITE_ID or not API_KEY (line 96)
ConfigMissing_and(site, key) == site = "" /\ key = ""
ConfigMissing(site, key) == site = "" \/ key = ""

\* is_dns and (retries_done < max_retries) (line 123), within except URLError
IsRetry_le(outcome, done) ==
  outcome \in URLErrors /\ outcome = "dns" /\ done <= max_retries
IsRetry_any(outcome, done) ==
  outcome \in URLErrors /\ done < max_retries
IsRetry(outcome, done) ==
  outcome \in URLErrors /\ outcome = "dns" /\ done < max_retries

\* retry_delay *= 2 (line 129)
NextDelay(d) == d * 2

\* CACHE_FILE.exists() and not cache_is_stale (lines 178, 195)
Usable_exists(f, stale) == f.exists
Usable(f, stale) == f.exists /\ ~stale

\* json.loads(CACHE_FILE.read_text()) succeeds (lines 191, 209, 216)
Readable(f) == f.exists /\ f.content # Corrupt

\* exit status of main (lines 269-271, 276, 291)
ExitCode_zero(r) == 0
ExitCode_one(r) == 1
ExitCode(r) == IF r # "none" THEN 1 ELSE 0

\* ---- strings: sequences of one-character strings ----
DigitChars == <<"0", "1", "2", "3", "4", "5", "6", "7", "8", "9">>
IsDigit(c) == \E k \in 1..10 : DigitChars[k] = c
DigitVal(c) == (CHOOSE k \in 1..10 : DigitChars[k] = c) - 1

\* int() of the digits s[a..b-1]
RECURSIVE IntOf(_, _, _)
IntOf(s, a, b) ==
  IF a >= b THEN 0 ELSE IntOf(s, a, b - 1) * 10 + DigitVal(s[b - 1])

\* first position at or after a that holds no digit (Len(s)+1 if none)
RECURSIVE DigitsEnd(_, _)
DigitsEnd(s, a) ==
  IF a > Len(s) \/ ~IsDigit(s[a]) THEN a ELSE DigitsEnd(s, a + 1)

\* position of a designator among the groups of _DURATION_RE (0: none)
UnitIndex(c) == CASE c = "H" -> 1 [] c = "M" -> 2 [] c = "S" -> 3 [] OTHER -> 0

NoMatch == [ok |-> FALSE, h |-> 0, m |-> 0, s |-> 0]

\* The tail (?:(\d+)H)?(?:(\d+)M)?(?:(\d+)S)?$ of _DURATION_RE matched from
\* position a, `last` being the last group used.  Python's $ matches at the
\* end of the string and also just before a newline that ends the string.
RECURSIVE MatchGroups(_, _, _, _)
MatchGroups(s, a, last, acc) ==
  IF a > Len(s) THEN acc
  ELSE IF a = Len(s) /\ s[a] = "\n" THEN acc
  ELSE LET b == DigitsEnd(s, a) IN
       IF b = a \/ b > Len(s) THEN NoMatch
       ELSE LET u == UnitIndex(s[b]) IN
            IF u = 0 \/ u <= last THEN NoMatch
            ELSE MatchGroups(s, b + 1, u,
                   CASE u = 1 -> [acc EXCEPT !.h = IntOf(s, a, b)]
                     [] u = 2 -> [acc EXCEPT !.m = IntOf(s, a, b)]
                     [] u = 3 -> [acc EXCEPT !.s = IntOf(s, a, b)])

\* _DURATION_RE.match(iso) (lines 58, 62)
DurationMatch(str) ==
  IF Len(str) >= 2 /\ str[1] = "P" /\ str[2] = "T"
  THEN MatchGroups(str, 3, 0, [ok |-> TRUE, h |-> 0, m |-> 0, s |-> 0])
  ELSE NoMatch

\* Durations are counted in seconds: the value below is 3600 times the
\* number of hours DurationHours returns.
HalfHour == 1800      \* return 0.5

\* DurationHours (lines 61-69), in seconds
DurationHours_sec60(str) ==
  LET t == DurationMatch(str) IN
  IF ~t.ok THEN HalfHour ELSE t.h * 3600 + t.m * 60 + t.s * 60
DurationHours(str) ==
  LET t == DurationMatch(str) IN
  IF ~t.ok THEN HalfHour ELSE t.h * 3600 + t.m * 60 + t.s

NoDur == 0 - 1

\* ---- inputs of DurationHours ----
MaxIsoLen == 4        \* every string over DurAlphabet up to this length
DurAlphabet == {"P", "T", "H", "M", "S", "1", "2", "\n", "x"}
ShortStrings == UNION {[1..n -> DurAlphabet] : n \in 0..MaxIsoLen}
\* digit strings used to build longer durations
Numbers == {<<"1">>, <<"0", "5">>, <<"3", "0">>}
OptGroup(letter) == {<< >>} \cup {n \o <<letter>> : n \in Numbers}
Tails == {<< >>, <<"\n">>, <<"\n", "\n">>, <<"x">>}
LongStrings ==
  {<<"P", "T">> \o gh \o gm \o gs \o tl :
     gh \in OptGroup("H"), gm \in OptGroup("M"), gs \in OptGroup("S"),
     tl \in Tails}
DurInputs == ShortStrings \cup LongStrings

\* ---- KwhByDay: values and helpers ----
Missing == 0 - 1                      \* the key is absent from the interval
PyNone == [kind |-> "none", s |-> << >>]
PyStr(x) == [kind |-> "str", s |-> x]
PT30M == <<"P", "T", "3", "0", "M">>  \* the default "PT30M" (line 229)

\* row.get("period", default) (lines 229, 235)
GetPeriod_nocarry(row, default) ==
  CASE row.period_kind = "absent" -> PyStr(PT30M)
    [] row.period_kind = "null" -> PyNone
    [] OTHER -> PyStr(row.period)
GetPeriod(row, default) ==
  CASE row.period_kind = "absent" -> default
    [] row.period_kind = "null" -> PyNone
    [] OTHER -> PyStr(row.period)

\* Python's `x or y` on None and strings (line 235)
Truthy(v) == v.kind = "str" /\ v.s # << >>
Or(x, y) == IF Truthy(x) THEN x ELSE y

\* float(row.get("pv_estimate", 0.0)) (line 233), in kW
MeanKw(row) == IF row.pv_estimate = Missing THEN 0 ELSE row.pv_estimate
\* float(row.get("pv_estimate90", mean_kw)) (line 234)
OptKw_zero(row) ==
  IF row.pv_estimate90 = Missing THEN 0 ELSE row.pv_estimate90
OptKw(row) ==
  IF row.pv_estimate90 = Missing THEN MeanKw(row) ELSE row.pv_estimate90

\* LOCAL_TZ lies west of UTC: local wall time = UTC - UtcOffset
UtcOffset == 1
\* ParsePeriodEnd(row["period_end"]).astimezone(LOCAL_TZ) (lines 239-240);
\* period_end is held as the instant it denotes
ToLocal(t_utc) == t_utc - UtcOffset

\* date.isoformat(): fixed width, zero padded
IsoDate_nopad(d) ==
  IF d < 10 THEN <<DigitChars[d + 1]>>
  ELSE <<DigitChars[(d \div 10) + 1], DigitChars[(d % 10) + 1]>>
IsoDate(d) == <<DigitChars[(d \div 10) + 1], DigitChars[(d % 10) + 1]>>

\* t_local.date() == now_local.date() and t_local < now_local (line 244)
Skip_le(t_local, now) ==
  LocalDate(t_local) = LocalDate(now) /\ t_local <= now
Skip(t_local, now) ==
  LocalDate(t_local) = LocalDate(now) /\ t_local < now

\* day == now_local.date().isoformat() (line 258)
IsToday_never(day, now) == FALSE
IsToday(day, now) == day = IsoDate(LocalDate(now))

\* str < str on digit strings, as sorted() compares the keys (line 252)
RECURSIVE LexLess(_, _)
LexLess(a, b) ==
  IF a = << >> THEN b # << >>
  ELSE IF b = << >> THEN FALSE
  ELSE IF a[1] = b[1] THEN LexLess(Tail(a), Tail(b))
  ELSE DigitVal(a[1]) < DigitVal(b[1])

\* sorted(sums.keys()) (line 252)
RECURSIVE SortedKeys(_)
SortedKeys(S) ==
  IF S = {} THEN << >>
  ELSE LET least == CHOOSE x \in S : \A y \in S \ {x} : LexLess(x, y)
       IN <<least>> \o SortedKeys(S \ {least})

EmptySums == [k \in {} |-> [mean |-> 0, opt |-> 0]]
\* entry = sums.setdefault(day_key, ...); entry += ... (lines 247-249).
\* Energies are in kW * s: 3600 times the kWh of the code.
AddTo(sm, key, mean, opt) ==
  [k \in DOMAIN sm \cup {key} |->
     LET old == IF k \in DOMAIN sm THEN sm[k] ELSE [mean |-> 0, opt |-> 0]
     IN IF k = key THEN [mean |-> old.mean + mean, opt |-> old.opt + opt]
        ELSE old]

\* ---- inputs of KwhByDay ----
FirstDay == 9         \* first local day of the forecasts
NumDays == 2          \* number of local days the forecasts span
MaxRows == 2          \* intervals per document, times and powers varying
MaxPeriodRows == 3    \* intervals per document, periods varying
AggDays == FirstDay..(FirstDay + NumDays - 1)
AggTimes == (FirstDay * DayLen)..((FirstDay + NumDays) * DayLen - 1)
PT1H == <<"P", "T", "1", "H">>
BadPeriod == <<"1", "H">>
PvChoices == {<<Missing, Missing>>, <<2, Missing>>, <<2, 3>>, <<4, 5>>}
PeriodChoices ==
  {<<"absent", << >> >>, <<"null", << >> >>, <<"str", << >> >>,
   <<"str", PT30M>>, <<"str", PT1H>>, <<"str", BadPeriod>>}
MkRow(t_local, per, pv) ==
  [period_end |-> t_local + UtcOffset,
   period_kind |-> per[1], period |-> per[2],
   pv_estimate |-> pv[1], pv_estimate90 |-> pv[2]]
TimeRows ==
  {MkRow(t, per, pv) : t \in AggTimes,
                       per \in {<<"absent", << >> >>, <<"str", PT30M>>},
                       pv \in PvChoices}
PeriodRows ==
  {MkRow((FirstDay + NumDays) * DayLen - 1, per, <<2, 3>>) :
     per \in PeriodChoices}
SeqsUpTo(S, n) == UNION {[1..k -> S] : k \in 0..n}
AggDocs == SeqsUpTo(TimeRows, MaxRows) \cup SeqsUpTo(PeriodRows, MaxPeriodRows)

DurIdle == iso = << >> /\ dur = NoDur
KwhIdle ==
  /\ forecasts = << >> /\ kpc = "idle" /\ row_i = 0
  /\ last_period = PyNone
  /\ sums = << >> /\ rows = << >> /\ hours = << >> /\ counted = {}

TypeOK ==
  /\ clock \in 0..MaxTime
  /\ CACHE_DIR \in BOOLEAN
  /\ CACHE_FILE \in [exists : BOOLEAN, mtime : Mtimes,
                     content : Docs \cup {Corrupt, NoDoc}]
  /\ SITE_ID \in Creds /\ API_KEY \in Creds
  /\ pc \in {"idle", "load", "fetch", "urlopen", "write", "except_http",
             "except", "read", "returned", "raised"}
  /\ now_local \in 0..MaxTime
  /\ need_fetch \in BOOLEAN /\ cache_is_stale \in BOOLEAN
  /\ retries_done \in 0..max_retries + 1
  /\ data \in Docs \cup {NoDoc}
  /\ exitCode \in {NoExit, 0, 1}
  /\ stdout \in BOOLEAN

\* ---- initial states: no invocation has run yet ----
Init ==
  /\ clock = 0
  /\ \E d \in BOOLEAN, e \in BOOLEAN, m \in Mtimes, c \in Docs \cup {Corrupt} :
       /\ CACHE_FILE = IF e THEN File(m, c) ELSE NoFile
       /\ CACHE_DIR = (e \/ d)
  /\ SITE_ID = "" /\ API_KEY = ""
  /\ pc = "idle"
  /\ now_local = 0
  /\ need_fetch = TRUE /\ cache_is_stale = FALSE
  /\ retries_done = 0 /\ retry_delay = InitialDelay
  /\ data = NoDoc /\ err = "none" /\ raised = "none"
  /\ exitCode = NoExit /\ stdout = FALSE
  /\ cache0 = CACHE_FILE
  /\ fetch_called = FALSE /\ attempts = 0 /\ sleeps = << >>
  /\ lastOutcome = "none" /\ fetched = NoDoc /\ source = "none"
  /\ fetched_today = FALSE /\ refetch_due = FALSE
  /\ DurIdle /\ KwhIdle

\* The cache manager at rest, before any invocation, with no cache record.
CacheIdle ==
  /\ clock = 0 /\ CACHE_DIR = FALSE /\ CACHE_FILE = NoFile
  /\ SITE_ID = "" /\ API_KEY = ""
  /\ pc = "idle"
  /\ need_fetch = TRUE /\ cache_is_stale = FALSE
  /\ retries_done = 0 /\ retry_delay = InitialDelay
  /\ data = NoDoc /\ err = "none" /\ raised = "none"
  /\ exitCode = NoExit /\ stdout = FALSE
  /\ cache0 = NoFile
  /\ fetch_called = FALSE /\ attempts = 0 /\ sleeps = << >>
  /\ lastOutcome = "none" /\ fetched = NoDoc /\ source = "none"
  /\ fetched_today = FALSE /\ refetch_due = FALSE

\* ---- the environment: time passes between invocations and while an
\*      invocation waits on the network or sleeps ----
Tick ==
  /\ pc \in {"idle", "urlopen"}
  /\ UNCHANGED <<durVars, kwhVars>>
  /\ clock < MaxTime
  /\ clock' = clock + 1
  /\ fetched_today' = (fetched_today /\ LocalDate(clock + 1) = LocalDate(clock))
  /\ refetch_due' = refetch_due
  /\ UNCHANGED <<CACHE_DIR, CACHE_FILE, SITE_ID, API_KEY, pc, now_local,
                 need_fetch, cache_is_stale, retries_done, retry_delay, data,
                 err, raised, exitCode, stdout, cache0, fetch_called,
                 attempts, sleeps, lastOutcome, fetched, source>>

\* ---- a new process: module import (lines 53-54) and main (line 265) ----
main_start ==
  /\ pc = "idle"
  /\ UNCHANGED <<durVars, kwhVars>>
  /\ \E site \in Creds, key \in Creds : SITE_ID' = site /\ API_KEY' = key
  /\ now_local' = clock
  /\ need_fetch' = TRUE /\ cache_is_stale' = FALSE
  /\ retries_done' = 0 /\ retry_delay' = InitialDelay
  /\ data' = NoDoc /\ err' = "none" /\ raised' = "none"
  /\ exitCode' = NoExit /\ stdout' = FALSE
  /\ cache0' = CACHE_FILE
  /\ fetch_called' = FALSE /\ attempts' = 0 /\ sleeps' = << >>
  /\ lastOutcome' = "none" /\ fetched' = NoDoc /\ source' = "none"
  /\ fetched_today' = fetched_today
  /\ refetch_due' =
       /\ source = "cache" /\ err \in FetchErrs
       /\ \/ LocalDate(clock) > LocalDate(now_local)
          \/ /\ LocalDate(clock) = LocalDate(now_local)
             /\ LocalDate(CACHE_FILE.mtime) < LocalDate(now_local)
  /\ pc' = "load"
  /\ UNCHANGED <<clock, CACHE_DIR, CACHE_FILE>>

\* ---- LoadOrRefreshCache, lines 143-170: mkdir and the freshness check ----
LoadOrRefreshCache_check ==
  /\ pc = "load"
  /\ UNCHANGED <<histVars, durVars, kwhVars>>
  /\ \E mkdir_ok \in BOOLEAN, unlink_ok \in BOOLEAN :
       IF ~CACHE_DIR /\ ~mkdir_ok
       THEN \* CACHE_DIR.mkdir raises
            /\ raised' = "mkdir"
            /\ pc' = "raised"
            /\ UNCHANGED <<CACHE_DIR, CACHE_FILE, need_fetch, cache_is_stale>>
       ELSE /\ CACHE_DIR' = TRUE
            /\ raised' = raised
            /\ IF ~CACHE_FILE.exists
               THEN /\ need_fetch' = TRUE
                    /\ UNCHANGED <<CACHE_FILE, cache_is_stale>>
               ELSE IF ~FromTimestampOk(CACHE_FILE.mtime)
               THEN \* except Exception: need_fetch = True
                    /\ need_fetch' = TRUE
                    /\ UNCHANGED <<CACHE_FILE, cache_is_stale>>
               ELSE IF IsStale(now_local, CACHE_FILE.mtime)
               THEN /\ need_fetch' = TRUE
                    /\ IF unlink_ok
                       THEN CACHE_FILE' = NoFile /\ cache_is_stale' = FALSE
                       ELSE CACHE_FILE' = CACHE_FILE /\ cache_is_stale' = TRUE
               ELSE /\ need_fetch' = ~SameDay(CACHE_FILE.mtime, now_local)
                    /\ UNCHANGED <<CACHE_FILE, cache_is_stale>>
            /\ pc' = IF need_fetch' THEN "fetch" ELSE "read"
  /\ UNCHANGED <<clock, SITE_ID, API_KEY, now_local, data, err, exitCode,
                 stdout, cache0, fetchVars, source>>

\* ---- FetchForecast, lines 96-109: credentials check, loop set-up ----
FetchForecast_start ==
  /\ pc = "fetch"
  /\ UNCHANGED <<histVars, durVars, kwhVars>>
  /\ fetch_called' = TRUE
  /\ IF ConfigMissing(SITE_ID, API_KEY)
     THEN /\ err' = "config"
          /\ pc' = "except"
          /\ UNCHANGED <<retries_done, retry_delay>>
     ELSE /\ retries_done' = 0
          /\ retry_delay' = InitialDelay
          /\ err' = err
          /\ pc' = "urlopen"
  /\ UNCHANGED <<clock, fsVars, envVars, now_local, need_fetch,
                 cache_is_stale, data, raised, mainVars, cache0, attempts,
                 sleeps, lastOutcome, fetched, source>>

\* ---- FetchForecast, lines 111-139: one iteration of the retry loop ----
FetchForecast_urlopen ==
  /\ pc = "urlopen"
  /\ UNCHANGED <<histVars, durVars, kwhVars>>
  /\ \E outcome \in Outcomes, d \in Docs :
       /\ attempts' = attempts + 1
       /\ lastOutcome' = outcome
       /\ IF outcome = "ok"
          THEN /\ data' = d
               /\ fetched' = d
               /\ pc' = "write"
               /\ UNCHANGED <<retries_done, retry_delay, sleeps, err>>
          ELSE IF IsRetry(outcome, retries_done)
          THEN /\ sleeps' = Append(sleeps, retry_delay)
               /\ retry_delay' = NextDelay(retry_delay)
               /\ retries_done' = retries_done + 1
               /\ pc' = "urlopen"
               /\ UNCHANGED <<data, fetched, err>>
          ELSE /\ err' = outcome
               /\ pc' = IF outcome = "http" THEN "except_http" ELSE "except"
               /\ UNCHANGED <<retries_done, retry_delay, sleeps, data,
                              fetched>>
  /\ UNCHANGED <<clock, fsVars, envVars, now_local, need_fetch,
                 cache_is_stale, raised, mainVars, cache0, fetch_called,
                 source>>

\* ---- LoadOrRefreshCache, line 175: persist the fetched document ----
LoadOrRefreshCache_write ==
  /\ pc = "write"
  /\ UNCHANGED <<histVars, durVars, kwhVars>>
  /\ \E w \in WriteOutcomes :
       /\ CACHE_FILE' = CASE w = "ok" -> File(clock, data)
                          [] w = "open_failed" -> CACHE_FILE
                          [] w = "partial" -> File(clock, Corrupt)
       /\ IF w = "ok"
          THEN pc' = "returned" /\ source' = "fetch" /\ err' = err
          ELSE pc' = "except" /\ source' = source /\ err' = "write"
  /\ UNCHANGED <<clock, CACHE_DIR, envVars, now_local, need_fetch,
                 cache_is_stale, data, raised, mainVars, cache0, fetchVars>>

\* The fallback shared by both handlers: read the cache record if it is
\* usable, else raise RuntimeError(msg).
Fallback(msg) ==
  /\ IF Usable(CACHE_FILE, cache_is_stale)
     THEN IF Readable(CACHE_FILE)
          THEN /\ data' = CACHE_FILE.content
               /\ source' = "cache"
               /\ raised' = raised
               /\ pc' = "returned"
          ELSE \* json.loads / read_text raises inside the handler
               /\ raised' = "read"
               /\ pc' = "raised"
               /\ UNCHANGED <<data, source>>
     ELSE /\ raised' = msg
          /\ pc' = "raised"
          /\ UNCHANGED <<data, source>>
  /\ UNCHANGED <<clock, fsVars, envVars, now_local, need_fetch,
                 cache_is_stale, err, mainVars, cache0, fetchVars>>

\* ---- LoadOrRefreshCache, lines 176-193: except urllib.error.HTTPError ----
LoadOrRefreshCache_except_http ==
  /\ pc = "except_http"
  /\ UNCHANGED <<histVars, durVars, kwhVars>>
  /\ Fallback("HTTP error")

\* ---- LoadOrRefreshCache, lines 194-214: except Exception ----
LoadOrRefreshCache_except ==
  /\ pc = "except"
  /\ UNCHANGED <<histVars, durVars, kwhVars>>
  /\ Fallback("no cache")

\* ---- LoadOrRefreshCache, lines 215-218: same-day cache, no fetch ----
LoadOrRefreshCache_read ==
  /\ pc = "read"
  /\ UNCHANGED <<histVars, durVars, kwhVars>>
  /\ IF Readable(CACHE_FILE)
     THEN /\ data' = CACHE_FILE.content
          /\ source' = "cache"
          /\ raised' = raised
          /\ pc' = "returned"
     ELSE /\ raised' = "read"
          /\ pc' = "raised"
          /\ UNCHANGED <<data, source>>
  /\ UNCHANGED <<clock, fsVars, envVars, now_local, need_fetch,
                 cache_is_stale, err, mainVars, cache0, fetchVars>>

\* ---- main, lines 269-271: the error line and exit status 1 ----
main_except ==
  /\ pc = "raised"
  /\ UNCHANGED <<durVars, kwhVars>>
  /\ fetched_today' = fetched_today /\ refetch_due' = FALSE
  /\ exitCode' = ExitCode(raised)
  /\ stdout' = FALSE
  /\ pc' = "idle"
  /\ UNCHANGED <<clock, fsVars, envVars, now_local, need_fetch,
                 cache_is_stale, retries_done, retry_delay, data, err, raised,
                 cache0, fetch_called, attempts, sleeps, lastOutcome, fetched,
                 source>>

\* ---- main, lines 273-291: the report (or "No forecast data found.") ----
main_report ==
  /\ pc = "returned"
  /\ UNCHANGED <<durVars, kwhVars>>
  /\ fetched_today' = (fetched_today \/
                        (source = "fetch" /\ LocalDate(now_local) = LocalDate(clock)))
  /\ refetch_due' = FALSE
  /\ exitCode' = ExitCode(raised)
  /\ stdout' = TRUE
  /\ pc' = "idle"
  /\ UNCHANGED <<clock, fsVars, envVars, now_local, need_fetch,
                 cache_is_stale, retries_done, retry_delay, data, err, raised,
                 cache0, fetch_called, attempts, sleeps, lastOutcome, fetched,
                 source>>

\* ---- DurationHours on its own ----
InitDur ==
  /\ iso \in DurInputs
  /\ dur = NoDur
  /\ now_local = 0
  /\ CacheIdle /\ KwhIdle

DurationHours_call ==
  /\ dur = NoDur
  /\ dur' = DurationHours(iso)
  /\ UNCHANGED <<iso, cacheVars, kwhVars>>

\* ---- KwhByDay on its own ----
InitAgg ==
  /\ forecasts \in AggDocs
  /\ now_local \in AggTimes
  /\ kpc = "call" /\ row_i = 0
  /\ last_period = PyNone
  /\ sums = << >> /\ rows = << >> /\ hours = << >> /\ counted = {}
  /\ CacheIdle /\ DurIdle

\* ---- KwhByDay, lines 225-230 ----
KwhByDay_start ==
  /\ kpc = "call"
  /\ IF forecasts = << >>
     THEN /\ rows' = << >>
          /\ kpc' = "done"
          /\ UNCHANGED <<row_i, last_period, sums>>
     ELSE /\ last_period' = GetPeriod(forecasts[1], PyStr(PT30M))
          /\ sums' = EmptySums
          /\ row_i' = 1
          /\ kpc' = "loop"
          /\ rows' = rows
  /\ UNCHANGED <<forecasts, hours, counted, cacheVars, durVars>>

\* ---- KwhByDay, lines 232-249: one iteration of the for loop ----
KwhByDay_row ==
  /\ kpc = "loop"
  /\ row_i <= Len(forecasts)
  /\ LET row == forecasts[row_i]
         per == Or(GetPeriod(row, last_period), last_period)
     IN /\ last_period' = per
        /\ IF per.kind = "none"
           THEN \* DurationHours(None): re.match raises TypeError
                /\ kpc' = "error"
                /\ UNCHANGED <<row_i, sums, hours, counted>>
           ELSE LET hrs == DurationHours(per.s)
                    t_local == ToLocal(row.period_end)
                    day_key == IsoDate(LocalDate(t_local))
                IN /\ hours' = Append(hours, hrs)
                   /\ IF Skip(t_local, now_local)
                      THEN UNCHANGED <<sums, counted>>
                      ELSE /\ sums' = AddTo(sums, day_key, MeanKw(row) * hrs,
                                            OptKw(row) * hrs)
                           /\ counted' = counted \cup {row_i}
                   /\ row_i' = row_i + 1
                   /\ kpc' = "loop"
  /\ UNCHANGED <<forecasts, rows, cacheVars, durVars>>

\* ---- KwhByDay, lines 251-261: the rows, sorted by day ----
KwhByDay_return ==
  /\ kpc = "loop"
  /\ row_i > Len(forecasts)
  /\ LET keys == SortedKeys(DOMAIN sums)
     IN rows' = [n \in 1..Len(keys) |->
                   [day |-> keys[n],
                    kwh_mean |-> sums[keys[n]].mean,
                    kwh_opt |-> sums[keys[n]].opt,
                    is_today |-> IsToday(keys[n], now_local)]]
  /\ kpc' = "done"
  /\ UNCHANGED <<forecasts, row_i, last_period, sums, hours, counted,
                 cacheVars, durVars>>

Next ==
  \/ Tick
  \/ main_start
  \/ LoadOrRefreshCache_check
  \/ FetchForecast_start
  \/ FetchForecast_urlopen
  \/ LoadOrRefreshCache_write
  \/ LoadOrRefreshCache_except_http
  \/ LoadOrRefreshCache_except
  \/ LoadOrRefreshCache_read
  \/ main_except
  \/ main_report

Spec == Init /\ [][Next]_vars

NextDur == DurationHours_call

NextAgg ==
  \/ KwhByDay_start
  \/ KwhByDay_row
  \/ KwhByDay_return
SpecAgg == InitAgg /\ [][NextAgg]_vars

SpecDur == InitDur /\ [][NextDur]_vars

\* Every urlopen returns or raises within its timeout (line 113) and
\* time.sleep returns, so an iteration of the retry loop always completes.
SpecFair == Spec /\ WF_vars(FetchForecast_urlopen)

\* ---- vocabulary of the properties ----
\* LoadOrRefreshCache has returned or raised
Done == pc \in {"returned", "raised"}
\* age of the record found at the start of the invocation
Age0 == now_local - cache0.mtime

\* C1: LoadOrRefreshCache raises only when no fetch succeeded and no usable
\* cached document exists: if FetchForecast returned a document, or a
\* readable record of age <= 3 days existed, the call does not raise.
C1_RaisesOnlyWithoutFetchAndCache ==
  pc = "raised" =>
    /\ fetched = NoDoc
    /\ ~(cache0.exists /\ cache0.content # Corrupt /\ Age0 <= max_age)

\* C2: a record older than 3 days is never returned: it is never the source
\* of the returned data, and when the fetch that follows fails the call
\* raises.
C2_StaleNeverReturned ==
  (Done /\ cache0.exists /\ Age0 > max_age) =>
    /\ ~(pc = "returned" /\ source = "cache" /\ CACHE_FILE = cache0)
    /\ (err \in FetchErrs => pc = "raised")

\* the case of C3: a record exists, is at most 3 days old and carries the
\* calendar date of now_local
C3_Pre ==
  /\ pc # "idle"
  /\ cache0.exists
  /\ cache0.mtime >= 0
  /\ Age0 <= max_age
  /\ cache0.mtime \div DayLen = now_local \div DayLen

C4_FallbackIffUsable ==
  (Done /\ err \in FetchErrs) =>
    IF CACHE_FILE.exists /\ ~cache_is_stale
    THEN pc = "returned" /\ data = CACHE_FILE.content
    ELSE pc = "raised"

\* C4 (amended): after a failed fetch, whatever its cause, the call returns
\* the cached document if a record exists, is not stale-marked and can be
\* read and parsed; in every other case it raises.
C4_FallbackIffUsableReadable ==
  (Done /\ err \in FetchErrs) =>
    IF CACHE_FILE.exists /\ ~cache_is_stale /\ CACHE_FILE.content # Corrupt
    THEN pc = "returned" /\ data = CACHE_FILE.content /\ source = "cache"
    ELSE pc = "raised"

C4_Witness ==
  /\ pc = "returned"
  /\ err = "dns"
  /\ source = "cache"
  /\ data = CACHE_FILE.content
  /\ need_fetch

\* C5: when no fetch was required and reading the cached document fails, a
\* fetch is attempted and the read error is not propagated.
C5_ReadFailureForcesFetch ==
  (Done /\ ~need_fetch /\ cache0.content = Corrupt) =>
    fetch_called /\ raised # "read"

\* C6: when the fetch succeeded and persisting the document failed, the call
\* still returns the freshly fetched document.
C6_WriteFailureNonFatal ==
  (Done /\ fetched # NoDoc /\ err = "write") =>
    pc = "returned" /\ data = fetched

\* the sleeps of the retry loop, in order
Backoff == <<1, 2, 4>>

C7_Bounded ==
  /\ attempts <= 4
  /\ retries_done <= 3
  /\ Len(sleeps) = retries_done
  /\ Len(sleeps) <= 3
  /\ \A i \in 1..Len(sleeps) : sleeps[i] = Backoff[i]
  /\ (err = "dns" => attempts = 4 /\ sleeps = Backoff)
  /\ (attempts = 4 /\ lastOutcome = "dns" => pc # "urlopen" /\ err = "dns")

\* C7: DNS failures are retried at most 3 times (at most 4 network
\* attempts), the sleeps are 1, 2, 4 in that order, the 4th consecutive DNS
\* failure is propagated, and the loop always terminates.
C7_DnsRetry ==
  /\ []C7_Bounded
  /\ (pc = "urlopen") ~> (pc # "urlopen")

C7_Witness ==
  /\ pc = "except"
  /\ err = "dns"
  /\ attempts = 4
  /\ sleeps = <<1, 2, 4>>

\* C8: a failure that is not a DNS-resolution failure is never followed by
\* another network attempt, however many DNS retries preceded it.
C8_NonDnsNotRetried ==
  [][ (lastOutcome \in {"urlerror", "http", "other"} /\ pc # "idle")
        => /\ attempts' = attempts
           /\ sleeps' = sleeps
           /\ pc' # "urlopen" ]_vars

C8_Witness ==
  /\ pc = "except_http"
  /\ lastOutcome = "http"
  /\ retries_done = 2
  /\ attempts = 3

\* C9: with an empty site id or token FetchForecast fails at once with the
\* configuration error: no network attempt, no retry, no sleep.
C9_ConfigErrorNoNetwork ==
  (pc # "idle" /\ (SITE_ID = "" \/ API_KEY = "")) =>
    /\ attempts = 0 /\ retries_done = 0 /\ sleeps = << >>
    /\ fetched = NoDoc
    /\ pc \notin {"urlopen", "write"}
    /\ (fetch_called => err = "config")

C9_Witness ==
  /\ pc = "except"
  /\ fetch_called
  /\ SITE_ID = "set" /\ API_KEY = ""
  /\ err = "config"
  /\ attempts = 0

\* the invocation has ended and the configuration error was raised in it
C10_Pre == pc = "idle" /\ exitCode # NoExit /\ err = "config"

C11_FailureExitsOneNoReport ==
  (pc = "idle" /\ exitCode # NoExit) =>
    /\ (raised # "none" => exitCode = 1 /\ ~stdout)
    /\ ~(stdout /\ exitCode = 1)
    /\ (err = "dns" /\ attempts = 4 /\ ~cache0.exists
          => exitCode = 1 /\ ~stdout)

C11_Witness ==
  /\ pc = "idle"
  /\ exitCode = 1 /\ ~stdout
  /\ err = "dns" /\ attempts = 4
  /\ ~cache0.exists
  /\ raised = "no cache"

\* C12: the cache record is never partially written: a step that writes the
\* record leaves either the previous record or a complete document.
C12_NeverPartiallyWritten ==
  [][ pc = "write" =>
        (CACHE_FILE' = CACHE_FILE \/ CACHE_FILE'.content \in Docs) ]_vars

\* C13: the forecast is fetched once per local day: once an invocation of a
\* local day has fetched and written the record, no later invocation of that
\* day calls FetchForecast or makes a network attempt.
C13_OncePerDay ==
  (pc # "idle" /\ fetched_today) =>
    /\ ~fetch_called /\ attempts = 0
    /\ pc \notin {"fetch", "urlopen", "write", "except", "except_http"}
    /\ CACHE_FILE = cache0

C13_Witness ==
  /\ pc = "returned"
  /\ fetched_today
  /\ source = "cache"
  /\ now_local > CACHE_FILE.mtime
  /\ attempts = 0

\* C20 as claimed: when FetchForecast raises, an existing record of age <= 3
\* days is left unchanged; the next invocation on a later local day (or on
\* the same day, the record being from an earlier day) attempts a fetch
\* again; a record of age <= 3 days is never deleted.
C20_Frame ==
  /\ (pc # "idle" /\ err \in FetchErrs /\ cache0.exists /\ Age0 <= max_age)
       => CACHE_FILE = cache0
  /\ (pc # "idle" /\ cache0.exists /\ Age0 <= max_age) => CACHE_FILE.exists
  /\ (Done /\ refetch_due) => fetch_called

\* C20 (amended): when FetchForecast raises, an existing record of age <= 3
\* days is left unchanged and a record of age <= 3 days is never deleted; the
\* invocation that follows a fallback attempts a fetch again exactly when its
\* now_local lies on another local day than the record's mtime, which is
\* every later local day unless the record is stamped in the future.
C20_FrameRefetchByDate ==
  /\ (pc # "idle" /\ err \in FetchErrs /\ cache0.exists /\ Age0 <= max_age)
       => CACHE_FILE = cache0
  /\ (pc # "idle" /\ cache0.exists /\ Age0 <= max_age) => CACHE_FILE.exists
  /\ (Done /\ refetch_due) =>
       /\ cache0.exists
       /\ fetch_called <=>
            (cache0.mtime \div DayLen # now_local \div DayLen)

C20_Witness ==
  /\ pc = "returned"
  /\ refetch_due
  /\ fetch_called /\ err = "http"
  /\ source = "cache"
  /\ CACHE_FILE = cache0
  /\ Age0 <= max_age

\* ---- the form PT{h}H{m}M{s}S, stated without the matcher ----
\* s[a..b-1] is a non-empty run of decimal digits
IsDigits(s, a, b) == a < b /\ \A k \in a..(b - 1) : IsDigit(s[k])
\* s[a..b-1] is an absent component, or a number followed by the designator
IsComponent(s, a, b, letter) ==
  \/ a = b
  \/ b - a >= 2 /\ IsDigits(s, a, b - 1) /\ s[b - 1] = letter
ComponentValue(s, a, b) == IF a = b THEN 0 ELSE IntOf(s, a, b - 1)
\* the ways of cutting s[3..] into the components H, M, S in that order
FormSplits(s) ==
  {ab \in (3..Len(s) + 1) \X (3..Len(s) + 1) :
     /\ ab[1] <= ab[2]
     /\ IsComponent(s, 3, ab[1], "H")
     /\ IsComponent(s, ab[1], ab[2], "M")
     /\ IsComponent(s, ab[2], Len(s) + 1, "S")}
IsForm(s) ==
  Len(s) >= 2 /\ s[1] = "P" /\ s[2] = "T" /\ FormSplits(s) # {}
\* 3600 * (h + m/60 + s/3600)
FormSeconds(s) ==
  LET ab == CHOOSE x \in FormSplits(s) : TRUE IN
  3600 * ComponentValue(s, 3, ab[1]) + 60 * ComponentValue(s, ab[1], ab[2])
    + ComponentValue(s, ab[2], Len(s) + 1)
Front(s) == SubSeq(s, 1, Len(s) - 1)
EndsWithNewline(s) == Len(s) >= 1 /\ s[Len(s)] = "\n"

Handled == 1..Len(hours)
LocalEnd(k) == ToLocal(forecasts[k].period_end)
DateOf(k) == LocalDate(LocalEnd(k))
Today == LocalDate(now_local)
Returned == kpc = "done"
\* the date a row names, read back from its day string
RowDate(r) == IntOf(r.day, 1, Len(r.day) + 1)
RowDates == {RowDate(rows[n]) : n \in 1..Len(rows)}
Ascending ==
  \A m \in 1..Len(rows) : \A n \in 1..Len(rows) :
    m < n => RowDate(rows[m]) < RowDate(rows[n])

\* C14: an interval of KwhByDay is left out of the totals exactly when its
\* local date is now_local's date and its local end time is strictly before
\* now_local; one ending exactly at now_local is counted, and so is every
\* interval of another date.
C14_SkipPastToday ==
  \A k \in Handled :
    (k \notin counted) <=> (DateOf(k) = Today /\ LocalEnd(k) < now_local)

C14_Witness ==
  /\ Returned
  /\ \E j \in Handled : \E k \in Handled :
       /\ LocalEnd(j) = now_local /\ j \in counted
       /\ DateOf(k) = Today /\ LocalEnd(k) < now_local /\ k \notin counted

\* C15 as stated: KwhByDay returns exactly one row per local date of some
\* interval of the document, without duplicates, in ascending date order.
C15_OneRowPerDate ==
  Returned =>
    /\ RowDates = {DateOf(k) : k \in 1..Len(forecasts)}
    /\ Ascending

\* C15 amended: KwhByDay returns exactly one row per local date of some
\* counted interval, without duplicates, in ascending date order; a date
\* whose intervals were all skipped has no row.
C15_OneRowPerCountedDate ==
  Returned =>
    /\ RowDates = {DateOf(k) : k \in counted}
    /\ Ascending

C15_Witness ==
  /\ Returned
  /\ Len(forecasts) = 2 /\ Len(rows) = 2
  /\ DateOf(1) > DateOf(2)
  /\ RowDate(rows[1]) = DateOf(2) /\ RowDate(rows[2]) = DateOf(1)

\* the nearest interval before k that satisfies Good, or 0
LastBefore(k, Good(_)) ==
  LET S == {j \in 1..(k - 1) : Good(j)}
  IN IF S = {} THEN 0 ELSE CHOOSE j \in S : \A i \in S : i <= j
WellFormed(j) ==
  forecasts[j].period_kind = "str" /\ IsForm(forecasts[j].period)

\* C16: an interval without a period lasts as long as the nearest earlier
\* period that matches the PT..H..M..S form says, and 30 minutes when there
\* is none; a malformed or null earlier period is not carried forward.
C16_CarryWellFormed ==
  \A k \in Handled :
    forecasts[k].period_kind = "absent" =>
      LET j == LastBefore(k, WellFormed)
      IN hours[k] = IF j = 0 THEN 1800 ELSE FormSeconds(forecasts[j].period)

\* the terms of the sums of C17, from the interval's own fields
MeanTerm(k) ==
  (IF forecasts[k].pv_estimate = Missing THEN 0
   ELSE forecasts[k].pv_estimate) * hours[k]
OptTerm(k) ==
  (IF forecasts[k].pv_estimate90 # Missing THEN forecasts[k].pv_estimate90
   ELSE IF forecasts[k].pv_estimate = Missing THEN 0
   ELSE forecasts[k].pv_estimate) * hours[k]
RECURSIVE SumMean(_)
SumMean(S) ==
  IF S = {} THEN 0
  ELSE LET k == CHOOSE x \in S : TRUE IN MeanTerm(k) + SumMean(S \ {k})
RECURSIVE SumOpt(_)
SumOpt(S) ==
  IF S = {} THEN 0
  ELSE LET k == CHOOSE x \in S : TRUE IN OptTerm(k) + SumOpt(S \ {k})

\* C17: the totals of a row are the sums, over the counted intervals of the
\* row's local date, of pv_estimate * hours and of pv_estimate90 * hours,
\* pv_estimate being 0 when absent and pv_estimate90 being the interval's
\* pv_estimate when absent.
C17_Totals ==
  Returned =>
    \A n \in 1..Len(rows) :
      LET S == {k \in counted : DateOf(k) = RowDate(rows[n])}
      IN /\ rows[n].kwh_mean = SumMean(S)
         /\ rows[n].kwh_opt = SumOpt(S)

\* two PT30M intervals today, not before now, with (2, 3) and (4, 5) kW:
\* one row of 3 kWh mean and 4 kWh optimistic
C17_Witness ==
  /\ Returned
  /\ Len(forecasts) = 2 /\ Len(rows) = 1
  /\ \A k \in 1..2 :
       /\ forecasts[k].period_kind = "str" /\ forecasts[k].period = PT30M
       /\ DateOf(k) = Today /\ LocalEnd(k) >= now_local
  /\ forecasts[1].pv_estimate = 2 /\ forecasts[1].pv_estimate90 = 3
  /\ forecasts[2].pv_estimate = 4 /\ forecasts[2].pv_estimate90 = 5
  /\ rows[1].kwh_mean = 3 * 3600 /\ rows[1].kwh_opt = 4 * 3600
  /\ rows[1].is_today

\* C19: when all intervals of the document fall on one local date after
\* now_local's date, KwhByDay returns one row, not flagged is_today, with
\* every interval counted; and a row is flagged is_today exactly when its
\* date is now_local's date.
C19_IsToday ==
  Returned =>
    /\ ( /\ forecasts # << >>
         /\ \E d \in AggDays :
              d > Today /\ \A k \in 1..Len(forecasts) : DateOf(k) = d )
       => /\ Len(rows) = 1
          /\ ~rows[1].is_today
          /\ counted = 1..Len(forecasts)
    /\ \A n \in 1..Len(rows) :
         rows[n].is_today <=> (RowDate(rows[n]) = Today)

C19_Witness ==
  /\ Returned
  /\ Len(forecasts) = 2 /\ Len(rows) = 1
  /\ \A k \in 1..2 : DateOf(k) = Today + 1
  /\ ~rows[1].is_today /\ counted = {1, 2}


====
